---- MODULE Spec2Model ----
(***************************************************************************)
(* Session state machine of the RPVI guitar tuner (src/src/main.cpp) with  *)
(* the feedback cadence mapper of src/src/audio_sequencer.c, the note      *)
(* converter of src/src/note_parser.c and the tuning analyzer.             *)
(*                                                                         *)
(* Units: times are milliseconds, frequencies are centi-Hertz (110.00 Hz   *)
(* is 11000), cents offsets are the integer part (towards zero) of the     *)
(* real offset, computed in fixed point (110.64 Hz against 110.00 Hz is    *)
(* 10 for 10.04), which leaves the comparisons against the integer         *)
(* thresholds of the code unchanged.                                       *)
(***************************************************************************)
EXTENDS Integers, Sequences, FiniteSets, TLC

VARIABLES
    current_state,        \* main.cpp:73
    tuner_mode,           \* main.cpp:74
    target_string,        \* main.cpp:75
    target_frequency,     \* main.cpp:76
    detected_frequency,   \* main.cpp:77
    state_entry_time,     \* main.cpp:78
    last_beep_update,     \* main.cpp:79
    weak_signal_count,    \* main.cpp:89
    latest_result,        \* main.cpp:100
    tuning_in_progress,   \* main.cpp:101
    warning_played,       \* main.cpp:444 (function static)
    in_tune_announced,    \* main.cpp:396 (function static)
    beeping_active,       \* audio_sequencer.c:26
    last_beep_time,       \* audio_sequencer.c:24
    current_result,       \* audio_sequencer.c:20 (NULL or the result pointed to)
    now,                  \* millis()
    pressed,              \* level of the six string buttons
    event,                \* pending button event
    amp_enabled,          \* amplifier shutdown pin
    prev,                 \* what the latest poll started from and read
    cues,                 \* audio/tactile outputs started by the latest poll
    nosig_run,            \* consecutive no-signal polls of the current stay
    entry_weak,           \* weak_signal_count when Listening was last entered
    er_polls,             \* polls handled in the current ErrorRecovery stay
    fresh,                \* the current state was entered and not yet polled
    presses,              \* PRESSED events injected so far
    entered_at,           \* clock value when the current non-Idle state was entered
    er_stays,             \* entries into ErrorRecovery so far
    fb_beep,              \* latest feedback beep of the current cadence tier
    tuned,                \* an in-tune result was analysed in this session
    twin,                 \* the state machines of the PC test programs, run alongside
    fn_in,                \* argument of the function under study
    fn_out                \* its result

vars == << current_state, tuner_mode, target_string, target_frequency,
           detected_frequency, state_entry_time, last_beep_update,
           weak_signal_count, latest_result, tuning_in_progress,
           warning_played, in_tune_announced, beeping_active, last_beep_time,
           current_result, now, pressed, event, amp_enabled, prev, cues,
           nosig_run, entry_weak, er_polls, fresh, presses, entered_at,
           er_stays, fb_beep, tuned, twin, fn_in, fn_out >>

hist_vars == << nosig_run, entry_weak, er_polls, fresh, entered_at, er_stays,
               fb_beep, tuned, twin >>

session_vars == << current_state, tuner_mode, target_string, target_frequency,
                   detected_frequency, state_entry_time, last_beep_update,
                   weak_signal_count, latest_result, tuning_in_progress,
                   warning_played, in_tune_announced, beeping_active,
                   last_beep_time, current_result, amp_enabled >>

(***************************************************************************)
(* Program constants                                                       *)
(***************************************************************************)
MAX_NO_SIGNAL_TIME_MS == 5000
MAX_WEAK_SIGNAL_COUNT == 10
REFERENCE_TONE_DURATION_MS == 2000
PLAYBACK_DURATION_MS == 1500
TARGET_TONE_DURATION_MS == 1500
READY_BEEP_DURATION_MS == 200
BEEP_UPDATE_INTERVAL_MS == 10
PAUSE_BETWEEN_TONES_MS == 300
RECOVERY_DELAY_MS == 2000
IN_TUNE_CENTS == 5
SETUP_DELAY_MS == 1000
NUM_STRINGS == 6

(***************************************************************************)
(* Bounds of the model                                                     *)
(***************************************************************************)
MaxTime == 9000
MaxHeld == 2
MaxPresses == 2
MaxCents == 130

TimeSteps == {1000}
InvalidIds == {7}
PressIds == {5, 6}
FreqInputs == {0, 11000, 11064}

TunerStates == {"IDLE", "PLAYING_REFERENCE", "WAITING_READY_BEEP", "LISTENING",
                "PLAYBACK_USER_NOTE", "PLAYBACK_TARGET_NOTE",
                "PROVIDING_FEEDBACK", "ERROR_RECOVERY"}

Strings == 1..NUM_STRINGS

\* millis() is an unsigned counter; differences are taken modulo its range.
\* The range is narrowed to 2^20 ms so that it is representable.
ClockModulus == 2^20

Elapsed(t, since) == (t - since) % ClockModulus

(***************************************************************************)
(* Note-frequency converter and tuning analyzer                            *)
(***************************************************************************)
\* Reference frequencies of strings 1..6 (E4 B3 G3 D3 A2 E2), centi-Hz.
STRING_FREQUENCIES == << 32963, 24694, 19600, 14683, 11000, 8241 >>

Abs(x) == IF x < 0 THEN -x ELSE x

\* Binary logarithm in fixed point: a ratio in [1, 2) is a mantissa scaled by
\* 2^MantissaBits, the result is in units of 1/LogUnit octave.
MantissaBits == 28
MantissaOne == 2^MantissaBits
HalfBits == 14
LogBits == 20
LogUnit == 2^LogBits

\* the first k binary digits of r/lo, for 0 <= r < lo
RECURSIVE FracBits(_, _, _)
FracBits(r, lo, k) ==
    IF k = 0 THEN 0
    ELSE IF 2 * r >= lo THEN 2^(k - 1) + FracBits(2 * r - lo, lo, k - 1)
    ELSE FracBits(2 * r, lo, k - 1)

\* x * x / MantissaOne for a mantissa x, by halves
SquareMantissa(x) ==
    LET a1 == x \div 2^HalfBits
        a0 == x % 2^HalfBits
    IN  a1 * a1 + (2 * a1 * a0) \div 2^HalfBits

RECURSIVE Log2Frac(_, _)
Log2Frac(x, k) ==
    IF k = 0 THEN 0
    ELSE LET y == SquareMantissa(x)
         IN  IF y >= 2 * MantissaOne
             THEN 2^(k - 1) + Log2Frac(y \div 2, k - 1)
             ELSE Log2Frac(y, k - 1)

\* log2(hi/lo) for hi >= lo > 0, in units of 1/LogUnit octave
RECURSIVE Log2Ratio(_, _)
Log2Ratio(hi, lo) ==
    IF hi >= 2 * lo THEN LogUnit + Log2Ratio(hi, 2 * lo)
    ELSE Log2Frac(MantissaOne + FracBits(hi - lo, lo, MantissaBits), LogBits)

\* log2(detected/target), signed, in units of 1/LogUnit octave
Log2Signed(detected, target) ==
    IF detected >= target THEN Log2Ratio(detected, target)
    ELSE -Log2Ratio(target, detected)

\* 1200 * l / LogUnit for l >= 0, integer part
CentsOfLog(l) ==
    1200 * (l \div LogUnit) + (1200 * (l % LogUnit)) \div LogUnit

\* the ratio taken upside down
calculate_cents_offset_Swapped(detected, target) ==
    IF detected <= 0 \/ target <= 0 THEN 0
    ELSE IF target >= detected
         THEN CentsOfLog(Log2Ratio(target, detected))
         ELSE -CentsOfLog(Log2Ratio(detected, target))

\* 1200 * log2(detected / target), integer part
calculate_cents_offset(detected, target) ==
    IF detected <= 0 \/ target <= 0 THEN 0
    ELSE IF detected >= target
         THEN CentsOfLog(Log2Ratio(detected, target))
         ELSE -CentsOfLog(Log2Ratio(target, detected))

TUNING_TOLERANCE_CENTS == 2

get_tuning_direction_Inclusive(cents) ==
    IF Abs(cents) <= TUNING_TOLERANCE_CENTS THEN "IN_TUNE"
    ELSE IF cents < 0 THEN "UP" ELSE "DOWN"

get_tuning_direction(cents) ==
    IF Abs(cents) < TUNING_TOLERANCE_CENTS THEN "IN_TUNE"
    ELSE IF cents < 0 THEN "UP" ELSE "DOWN"

\* linear distance instead of the ratio
LogCloser_Linear(freq, s, o) ==
    Abs(freq - STRING_FREQUENCIES[s]) < Abs(freq - STRING_FREQUENCIES[o])

\* the reference of string s is nearer to freq than that of string o on the
\* log scale: |log(freq/a)| < |log(freq/b)|, decided exactly on the ratios
LogCloser(freq, s, o) ==
    LET a == STRING_FREQUENCIES[s]
        b == STRING_FREQUENCIES[o]
    IN  IF a = b THEN FALSE
        ELSE IF a <= freq /\ b <= freq THEN a > b
        ELSE IF a >= freq /\ b >= freq THEN a < b
        ELSE IF a < freq THEN freq * freq < a * b
        ELSE a * b < freq * freq

NearestString(freq) ==
    CHOOSE s \in Strings :
        \A o \in Strings :
            \/ LogCloser(freq, s, o)
            \/ (~LogCloser(freq, o, s) /\ s <= o)

UnknownResult(freq) ==
    [detected_string |-> 0, target_string |-> 0, cents_offset |-> 0,
     direction |-> "UNKNOWN", detected_frequency |-> freq,
     target_frequency |-> 0]

\* a result made up for string 6 instead of UNKNOWN
analyze_tuning_auto_Fabricate(freq) ==
    IF freq <= 0
    THEN [detected_string |-> 6, target_string |-> 6, cents_offset |-> 0,
          direction |-> "IN_TUNE", detected_frequency |-> freq,
          target_frequency |-> STRING_FREQUENCIES[6]]
    ELSE LET s == NearestString(freq)
             c == calculate_cents_offset(freq, STRING_FREQUENCIES[s])
         IN  [detected_string |-> s, target_string |-> s, cents_offset |-> c,
              direction |-> get_tuning_direction(c),
              detected_frequency |-> freq,
              target_frequency |-> STRING_FREQUENCIES[s]]

analyze_tuning_auto(freq) ==
    IF freq <= 0 THEN UnknownResult(freq)
    ELSE LET s == NearestString(freq)
             c == calculate_cents_offset(freq, STRING_FREQUENCIES[s])
         IN  [detected_string |-> s, target_string |-> s, cents_offset |-> c,
              direction |-> get_tuning_direction(c),
              detected_frequency |-> freq,
              target_frequency |-> STRING_FREQUENCIES[s]]

\* a bad string index fails instead of falling back
analyze_tuning_NoFallback(freq, string_num) ==
    IF freq <= 0 THEN analyze_tuning_auto(freq)
    ELSE IF string_num < 1 \/ string_num > 6 THEN UnknownResult(freq)
    ELSE LET c == calculate_cents_offset(freq, STRING_FREQUENCIES[string_num])
         IN  [detected_string |-> NearestString(freq),
              target_string |-> string_num, cents_offset |-> c,
              direction |-> get_tuning_direction(c),
              detected_frequency |-> freq,
              target_frequency |-> STRING_FREQUENCIES[string_num]]

analyze_tuning(freq, string_num) ==
    IF string_num < 1 \/ string_num > 6 \/ freq <= 0
    THEN analyze_tuning_auto(freq)
    ELSE LET c == calculate_cents_offset(freq, STRING_FREQUENCIES[string_num])
         IN  [detected_string |-> NearestString(freq),
              target_string |-> string_num, cents_offset |-> c,
              direction |-> get_tuning_direction(c),
              detected_frequency |-> freq,
              target_frequency |-> STRING_FREQUENCIES[string_num]]

NoResult == UnknownResult(0)

\* The analyses the handlers can request, evaluated once.
Analysis == [freq \in FreqInputs, s \in 0..7 |-> analyze_tuning(freq, s)]

(***************************************************************************)
(* Note-frequency converter (note_parser.c)                                *)
(*                                                                         *)
(* A C string is the sequence of its characters before the terminator;     *)
(* a character is a one-character string. Frequencies are centi-Hertz,     *)
(* rounded to the nearest.                                                 *)
(***************************************************************************)
NUL == "NUL"

LowerCase == << "a", "b", "c", "d", "e", "f", "g", "h", "i", "j", "k", "l",
                "m", "n", "o", "p", "q", "r", "s", "t", "u", "v", "w", "x",
                "y", "z" >>

UpperCase == << "A", "B", "C", "D", "E", "F", "G", "H", "I", "J", "K", "L",
                "M", "N", "O", "P", "Q", "R", "S", "T", "U", "V", "W", "X",
                "Y", "Z" >>

Digits == << "0", "1", "2", "3", "4", "5", "6", "7", "8", "9" >>

toupper(c) ==
    IF \E i \in DOMAIN LowerCase : LowerCase[i] = c
    THEN UpperCase[CHOOSE i \in DOMAIN LowerCase : LowerCase[i] = c]
    ELSE c

isdigit(c) == \E i \in DOMAIN Digits : Digits[i] = c

\* c - '0' for a digit c
DigitValue(c) == (CHOOSE i \in DOMAIN Digits : Digits[i] = c) - 1

\* note[index]; the terminator follows the last character
CharAt(note, index) == IF index < Len(note) THEN note[index + 1] ELSE NUL

InvalidOffset == 0 - 1

getNoteSemitoneOffset_FSharp(note_letter) ==
    LET u == toupper(note_letter)
    IN  IF u = "C" THEN 0
        ELSE IF u = "D" THEN 2
        ELSE IF u = "E" THEN 4
        ELSE IF u = "F" THEN 6
        ELSE IF u = "G" THEN 7
        ELSE IF u = "A" THEN 9
        ELSE IF u = "B" THEN 12
        ELSE InvalidOffset

getNoteSemitoneOffset(note_letter) ==
    LET u == toupper(note_letter)
    IN  IF u = "C" THEN 0
        ELSE IF u = "D" THEN 2
        ELSE IF u = "E" THEN 4
        ELSE IF u = "F" THEN 5
        ELSE IF u = "G" THEN 7
        ELSE IF u = "A" THEN 9
        ELSE IF u = "B" THEN 11
        ELSE InvalidOffset

A4_FREQUENCY == 440
A4_MIDI_NUMBER == 69
SEMITONES_PER_OCTAVE == 12

\* 2^(k/12) for k = 0..11, in millionths
SemitoneRatio == << 1000000, 1059463, 1122462, 1189207, 1259921, 1334840,
                    1414214, 1498307, 1587401, 1681793, 1781797, 1887749 >>

\* A4_FREQUENCY * powf(2.0f, (midi_note - A4_MIDI_NUMBER) / 12.0f)
EqualTemperament(midi_note) ==
    LET d == midi_note - A4_MIDI_NUMBER
        q == d \div SEMITONES_PER_OCTAVE
        r == d % SEMITONES_PER_OCTAVE
        x == A4_FREQUENCY * SemitoneRatio[r + 1]
    IN  IF q >= 0 THEN ((x \div 100) * 2^q + 50) \div 100
        ELSE ((x \div 2^(-q)) + 5000) \div 10000

\* the semitone after the sharp/flat adjustments
ApplyAccidentals_SharpOnly(semitone, is_sharp, is_flat) ==
    IF is_sharp THEN semitone + 1
    ELSE IF is_flat THEN semitone - 1 ELSE semitone

ApplyAccidentals(semitone, is_sharp, is_flat) ==
    (IF is_sharp THEN semitone + 1 ELSE semitone) - (IF is_flat THEN 1 ELSE 0)

calculateNoteFrequency(note_letter, octave, is_sharp, is_flat) ==
    LET semitone == getNoteSemitoneOffset(note_letter)
    IN  IF semitone < 0 THEN 0
        ELSE EqualTemperament((octave + 1) * 12
                              + ApplyAccidentals(semitone, is_sharp, is_flat))

\* ParsedNote result = {0}
ZeroNote ==
    [note_letter |-> NUL, octave |-> 0, is_sharp |-> FALSE, is_flat |-> FALSE,
     frequency |-> 0, valid |-> FALSE]

\* index after the optional accidental
AccidentalEnd(note) ==
    IF CharAt(note, 1) = "#" \/ CharAt(note, 1) = "b" THEN 2 ELSE 1

OctaveInRange(octave) == ~(octave < 0 \/ octave > 8)

\* the argument is a record: null for the NULL pointer, else the characters
parseNoteDetailed(note) ==
    IF note.null \/ CharAt(note.chars, 0) = NUL THEN ZeroNote
    ELSE LET s == note.chars
             letter == toupper(CharAt(s, 0))
             r1 == [ZeroNote EXCEPT !.note_letter = letter]
         IN  IF getNoteSemitoneOffset(letter) < 0 THEN r1
             ELSE LET r2 == [r1 EXCEPT !.is_sharp = (CharAt(s, 1) = "#"),
                                        !.is_flat = (CharAt(s, 1) # "#"
                                                     /\ CharAt(s, 1) = "b")]
                      index == AccidentalEnd(s)
                  IN  IF ~isdigit(CharAt(s, index)) THEN r2
                      ELSE LET r3 == [r2 EXCEPT !.octave =
                                                 DigitValue(CharAt(s, index))]
                           IN  IF ~OctaveInRange(r3.octave) THEN r3
                               ELSE [r3 EXCEPT
                                       !.frequency = calculateNoteFrequency(
                                           r3.note_letter, r3.octave,
                                           r3.is_sharp, r3.is_flat),
                                       !.valid = TRUE]

parseNote(note) ==
    LET parsed == parseNoteDetailed(note)
    IN  IF parsed.valid THEN parsed.frequency ELSE 0

\* names of strings 1..6
STRING_NOTES == << "E4", "B3", "G3", "D3", "A2", "E2" >>

NullName == "NULL"

getStringFrequency(string_num) ==
    IF string_num < 1 \/ string_num > 6 THEN 0
    ELSE STRING_FREQUENCIES[string_num]

getStringNote_Clamped(string_num) ==
    IF string_num < 1 THEN NullName
    ELSE STRING_NOTES[IF string_num > 6 THEN 6 ELSE string_num]

getStringNote(string_num) ==
    IF string_num < 1 \/ string_num > 6 THEN NullName
    ELSE STRING_NOTES[string_num]

\* the characters of a note name of the tables
NameChars(name) ==
    [null |-> FALSE,
     chars |-> CASE name = "E4" -> << "E", "4" >>
                 [] name = "B3" -> << "B", "3" >>
                 [] name = "G3" -> << "G", "3" >>
                 [] name = "D3" -> << "D", "3" >>
                 [] name = "A2" -> << "A", "2" >>
                 [] name = "E2" -> << "E", "2" >>]

\* playNoteTone: the tone started, or none for an unparsable note
playNoteTone(note) ==
    LET frequency == parseNote(NameChars(note))
    IN  IF frequency > 0 THEN { [tone |-> frequency] } ELSE {}

\* playGuitarString: the set of tones started
playGuitarString(string_num) ==
    LET note == getStringNote(string_num)
    IN  IF note # NullName THEN playNoteTone(note) ELSE {}

\* frequency_table, centi-Hz
frequency_table ==
    << [frequency |-> 7342,  note_name |-> "D2"],
       [frequency |-> 7778,  note_name |-> "Eb2"],
       [frequency |-> 8241,  note_name |-> "E2"],
       [frequency |-> 8731,  note_name |-> "F2"],
       [frequency |-> 9250,  note_name |-> "Gb2"],
       [frequency |-> 9800,  note_name |-> "G2"],
       [frequency |-> 10383, note_name |-> "Ab2"],
       [frequency |-> 11000, note_name |-> "A2"],
       [frequency |-> 11654, note_name |-> "Bb2"],
       [frequency |-> 12347, note_name |-> "B2"],
       [frequency |-> 13081, note_name |-> "C3"],
       [frequency |-> 13859, note_name |-> "Db3"],
       [frequency |-> 14683, note_name |-> "D3"],
       [frequency |-> 15556, note_name |-> "Eb3"],
       [frequency |-> 16481, note_name |-> "E3"],
       [frequency |-> 17461, note_name |-> "F3"],
       [frequency |-> 18500, note_name |-> "Gb3"],
       [frequency |-> 19600, note_name |-> "G3"],
       [frequency |-> 20765, note_name |-> "Ab3"],
       [frequency |-> 22000, note_name |-> "A3"],
       [frequency |-> 23308, note_name |-> "Bb3"],
       [frequency |-> 24694, note_name |-> "B3"],
       [frequency |-> 26163, note_name |-> "C4"],
       [frequency |-> 27718, note_name |-> "Db4"],
       [frequency |-> 29366, note_name |-> "D4"],
       [frequency |-> 31113, note_name |-> "Eb4"],
       [frequency |-> 32963, note_name |-> "E4"],
       [frequency |-> 34923, note_name |-> "F4"],
       [frequency |-> 36999, note_name |-> "Gb4"],
       [frequency |-> 39200, note_name |-> "G4"],
       [frequency |-> 41530, note_name |-> "Ab4"],
       [frequency |-> 44000, note_name |-> "A4"],
       [frequency |-> 46616, note_name |-> "Bb4"],
       [frequency |-> 49388, note_name |-> "B4"],
       [frequency |-> 52325, note_name |-> "C5"] >>

FREQUENCY_TABLE_SIZE == Len(frequency_table)

\* the loop of frequencyToNote from entry i on, carrying min_diff and
\* closest_note
RECURSIVE ClosestScan(_, _, _, _)
ClosestScan(frequency, i, min_diff, closest_note) ==
    IF i > FREQUENCY_TABLE_SIZE
    THEN [min_diff |-> min_diff, closest_note |-> closest_note]
    ELSE LET diff == Abs(frequency - frequency_table[i].frequency)
         IN  IF diff < min_diff
             THEN ClosestScan(frequency, i + 1, diff,
                              frequency_table[i].note_name)
             ELSE ClosestScan(frequency, i + 1, min_diff, closest_note)

NoteTolerance_Wide(min_diff) == min_diff <= 1000

NoteTolerance(min_diff) == min_diff <= 500

frequencyToNote(frequency) ==
    IF frequency <= 0 THEN NullName
    ELSE LET scan == ClosestScan(frequency, 1, 100000, NullName)
         IN  IF NoteTolerance(scan.min_diff) THEN scan.closest_note
             ELSE NullName

(***************************************************************************)
(* Feedback cadence mapper (audio_sequencer.c)                             *)
(***************************************************************************)
beep_rates ==
    << [max_cents |-> 100, beep_interval |-> 100],
       [max_cents |-> 75,  beep_interval |-> 150],
       [max_cents |-> 50,  beep_interval |-> 200],
       [max_cents |-> 40,  beep_interval |-> 300],
       [max_cents |-> 25,  beep_interval |-> 500],
       [max_cents |-> 15,  beep_interval |-> 800],
       [max_cents |-> 5,   beep_interval |-> 1200],
       [max_cents |-> 0,   beep_interval |-> 0] >>

NUM_BEEP_RATES == Len(beep_rates)

\* Variant: strict comparison against the tier bound.
RECURSIVE BeepScan_Strict(_, _)
BeepScan_Strict(abs_cents, i) ==
    IF i > NUM_BEEP_RATES THEN 0
    ELSE IF abs_cents > beep_rates[i].max_cents
         THEN beep_rates[i].beep_interval
         ELSE BeepScan_Strict(abs_cents, i + 1)

RECURSIVE BeepScan(_, _)
BeepScan(abs_cents, i) ==
    IF i > NUM_BEEP_RATES THEN 0
    ELSE IF abs_cents >= beep_rates[i].max_cents
         THEN beep_rates[i].beep_interval
         ELSE BeepScan(abs_cents, i + 1)

calculate_beep_interval(cents_offset) == BeepScan(Abs(cents_offset), 1)

\* The sequencer state as a record, threaded through the calls of one poll.
SeqState == [beeping_active |-> beeping_active,
             last_beep_time |-> last_beep_time,
             current_result |-> current_result]

\* Variant: the in-tune tier is not told apart from the beeping tiers.
InTuneInterval_Never(beep_interval) == FALSE

\* "if (beep_interval == 0)": the tier of an in-tune result
InTuneInterval(beep_interval) == beep_interval = 0

\* result is never NULL at the call sites of main.cpp
generate_dynamic_beep_feedback(seq, result) ==
    IF InTuneInterval(calculate_beep_interval(result.cents_offset))
    THEN [seq EXCEPT !.beeping_active = FALSE, !.current_result = "LATEST"]
    ELSE [seq EXCEPT !.beeping_active = TRUE, !.last_beep_time = 0,
                     !.current_result = "LATEST"]

\* deref is the TuningResult current_result points to
BeepDue(seq, deref, current_time_ms) ==
    /\ seq.beeping_active
    /\ seq.current_result # "NULL"
    /\ ~InTuneInterval(calculate_beep_interval(deref.cents_offset))
    /\ current_time_ms >=
         (seq.last_beep_time + calculate_beep_interval(deref.cents_offset))
            % ClockModulus

audio_sequencer_update_beeps(seq, deref, current_time_ms) ==
    IF ~seq.beeping_active \/ seq.current_result = "NULL" THEN seq
    ELSE IF InTuneInterval(calculate_beep_interval(deref.cents_offset))
         THEN [seq EXCEPT !.beeping_active = FALSE]
         ELSE IF BeepDue(seq, deref, current_time_ms)
              THEN [seq EXCEPT !.last_beep_time = current_time_ms]
              ELSE seq

(***************************************************************************)
(* Collaborators: buttons, amplifier, clock                                *)
(***************************************************************************)
\* button_get_event() returns NULL unless an event is ready, so the content
\* of a consumed event is not observable and is kept as NoEvent.
NoEvent == [ready |-> FALSE, id |-> 0, state |-> "RELEASED"]

button_poll == event.ready

button_is_pressed(button_id) ==
    button_id >= 1 /\ button_id <= 6 /\ button_id \in pressed

\* a value that no frequency reading takes
NoRead == 0 - 1

\* no feedback beep yet in the current cadence tier
NoBeep == [beeped |-> FALSE, time |-> 0, interval |-> 0]

NoPoll == [state |-> "NONE", entry |-> 0, weak |-> 0, time |-> 0,
           held |-> FALSE, freq |-> NoRead, target |-> 0, ev |-> NoEvent,
           sw |-> "NONE", mode |-> "NONE", since |-> 0, cents |-> 0,
           beep |-> NoBeep, result |-> NoResult, tuned |-> FALSE]

\* Record of the poll being handled: the state it starts from and its inputs
\* (frequency read, button event consumed, mode switch level read).
ThisPoll(freq, ev, sw) ==
    [state |-> current_state, entry |-> state_entry_time,
     weak |-> weak_signal_count, time |-> now,
     held |-> button_is_pressed(target_string), freq |-> freq,
     target |-> target_string, ev |-> ev, sw |-> sw, mode |-> tuner_mode,
     since |-> entered_at, cents |-> latest_result.cents_offset,
     beep |-> fb_beep, result |-> latest_result, tuned |-> tuned]

Min(a, b) == IF a <= b THEN a ELSE b

MaxErPolls == 3
MaxRun == 12
MaxErStays == 2

(***************************************************************************)
(* The state machines of the PC test programs                              *)
(***************************************************************************)
\* main_test.cpp and test_state_machine.cpp each carry a copy of the state
\* machine. A copy is the record of its current_state, target_string,
\* state_entry_time and weak_signal_count; its states are written with the
\* names of main.cpp, PLAYING_TONE being PLAYING_REFERENCE. The duration of
\* the reference tone is taken from main.cpp.
TONE_PLAYBACK_DURATION_MS == REFERENCE_TONE_DURATION_MS

CopyInit == [current_state |-> "IDLE", target_string |-> 0,
             state_entry_time |-> 0, weak_signal_count |-> 0]

\* button_is_pressed() of main_test.cpp, get_button_state() of
\* test_state_machine.cpp
get_button_state(levels, button_id) ==
    button_id >= 1 /\ button_id <= 6 /\ button_id \in levels

\* the release block that ends every non-Idle handler of main_test.cpp
ReleasedToIdle(m, levels) ==
    IF ~get_button_state(levels, m.target_string)
    THEN [m EXCEPT !.current_state = "IDLE", !.target_string = 0]
    ELSE m

\* the weak-signal branch shared by the copies: count, and leave for
\* next_state when the count reaches MAX_WEAK_SIGNAL_COUNT
WeakBranch(m, time, next_state) ==
    IF m.weak_signal_count + 1 >= MAX_WEAK_SIGNAL_COUNT
    THEN [m EXCEPT !.weak_signal_count = @ + 1,
                   !.current_state = next_state,
                   !.state_entry_time = time]
    ELSE [m EXCEPT !.weak_signal_count = @ + 1]

\* run_state_machine() of main_test.cpp: one call, on the clock value, the
\* button event, the button levels and the frequency of the poll. Its
\* tuner_mode is never assigned and stays MODE_PLAY_TONE.
run_state_machine(m, time, ev, levels, freq) ==
    LET elapsed == Elapsed(time, m.state_entry_time)
    IN  CASE m.current_state = "IDLE" ->
               IF ev.ready /\ ev.state = "PRESSED"
               THEN [m EXCEPT !.target_string = ev.id,
                              !.current_state = "PLAYING_REFERENCE",
                              !.state_entry_time = time]
               ELSE m
          [] m.current_state = "PLAYING_REFERENCE" ->
               ReleasedToIdle(
                   IF elapsed >= TONE_PLAYBACK_DURATION_MS
                   THEN [m EXCEPT !.current_state = "WAITING_READY_BEEP",
                                  !.state_entry_time = time]
                   ELSE m, levels)
          [] m.current_state = "WAITING_READY_BEEP" ->
               ReleasedToIdle(
                   IF elapsed >= READY_BEEP_DURATION_MS
                   THEN [m EXCEPT !.current_state = "LISTENING",
                                  !.state_entry_time = time,
                                  !.weak_signal_count = 0]
                   ELSE m, levels)
          [] m.current_state = "LISTENING" ->
               LET m1 == IF freq > 0
                         THEN [m EXCEPT !.current_state = "PROVIDING_FEEDBACK",
                                        !.weak_signal_count = 0]
                         ELSE WeakBranch(m, time, "ERROR_RECOVERY")
                   m2 == IF Elapsed(time, m1.state_entry_time)
                              >= MAX_NO_SIGNAL_TIME_MS
                         THEN [m1 EXCEPT !.current_state = "ERROR_RECOVERY",
                                         !.state_entry_time = time]
                         ELSE m1
               IN  ReleasedToIdle(m2, levels)
          [] m.current_state = "PROVIDING_FEEDBACK" ->
               ReleasedToIdle(
                   IF freq > 0 THEN [m EXCEPT !.weak_signal_count = 0]
                   ELSE WeakBranch(m, time, "LISTENING"), levels)
          [] m.current_state = "ERROR_RECOVERY" ->
               ReleasedToIdle(
                   IF elapsed >= RECOVERY_DELAY_MS
                   THEN [m EXCEPT !.current_state = "LISTENING",
                                  !.state_entry_time = time,
                                  !.weak_signal_count = 0]
                   ELSE m, levels)
          [] OTHER -> m

\* the release test of test_state_machine.cpp: target_string is kept
ReleasedKeepsTarget(m, levels) ==
    IF ~get_button_state(levels, m.target_string)
    THEN [m EXCEPT !.current_state = "IDLE"]
    ELSE m

\* the lowest-numbered button that is down
FirstDown(levels) ==
    CHOOSE i \in levels \cap Strings : \A j \in levels \cap Strings : i <= j

\* state_machine_update() of test_state_machine.cpp: one call, on the clock
\* value, the button levels and the frequency of the poll; elapsed is taken
\* once, on entry.
state_machine_update(m, time, levels, freq) ==
    LET elapsed == Elapsed(time, m.state_entry_time)
    IN  CASE m.current_state = "IDLE" ->
               IF levels \cap Strings # {}
               THEN [m EXCEPT !.target_string = FirstDown(levels),
                              !.current_state = "PLAYING_REFERENCE",
                              !.state_entry_time = time]
               ELSE m
          [] m.current_state = "PLAYING_REFERENCE" ->
               ReleasedKeepsTarget(
                   IF elapsed >= TONE_PLAYBACK_DURATION_MS
                   THEN [m EXCEPT !.current_state = "WAITING_READY_BEEP",
                                  !.state_entry_time = time]
                   ELSE m, levels)
          [] m.current_state = "WAITING_READY_BEEP" ->
               ReleasedKeepsTarget(
                   IF elapsed >= READY_BEEP_DURATION_MS
                   THEN [m EXCEPT !.current_state = "LISTENING",
                                  !.state_entry_time = time,
                                  !.weak_signal_count = 0]
                   ELSE m, levels)
          [] m.current_state = "LISTENING" ->
               LET m1 == IF freq > 0
                         THEN [m EXCEPT !.current_state = "PROVIDING_FEEDBACK",
                                        !.weak_signal_count = 0]
                         ELSE WeakBranch(m, time, "ERROR_RECOVERY")
                   m2 == IF elapsed >= MAX_NO_SIGNAL_TIME_MS
                         THEN [m1 EXCEPT !.current_state = "ERROR_RECOVERY",
                                         !.state_entry_time = time]
                         ELSE m1
               IN  ReleasedKeepsTarget(m2, levels)
          [] m.current_state = "PROVIDING_FEEDBACK" ->
               ReleasedKeepsTarget(
                   IF freq > 0 THEN [m EXCEPT !.weak_signal_count = 0]
                   ELSE WeakBranch(m, time, "LISTENING"), levels)
          [] m.current_state = "ERROR_RECOVERY" ->
               ReleasedKeepsTarget(
                   IF elapsed >= RECOVERY_DELAY_MS
                   THEN [m EXCEPT !.current_state = "LISTENING",
                                  !.state_entry_time = time,
                                  !.weak_signal_count = 0]
                   ELSE m, levels)
          [] OTHER -> m

\* the copies are not run
NoTwin == [on |-> FALSE, pc |-> CopyInit, sm |-> CopyInit]

\* a copy is in the state of main.cpp's machine, with its target_string
SameAsDevice(m) ==
    m.current_state = current_state /\ m.target_string = target_string

\* Bookkeeping of one poll; evaluated after current_state' and
\* weak_signal_count' are known. What is recorded about a stay is dropped
\* when the session ends.
PollHist(freq) ==
    /\ nosig_run' = IF freq = NoRead \/ freq > 0 \/ current_state' = "IDLE"
                    THEN 0
                    ELSE Min((IF fresh THEN 0 ELSE nosig_run) + 1, MaxRun)
    /\ fresh' = (current_state' # current_state)
    /\ twin' = IF ~twin.on THEN twin
              ELSE [twin EXCEPT
                      !.pc = IF SameAsDevice(@)
                             THEN run_state_machine(@, now, prev'.ev,
                                                    pressed, freq)
                             ELSE @,
                      !.sm = IF SameAsDevice(@)
                             THEN state_machine_update(@, now, pressed,
                                                       freq)
                             ELSE @]
    /\ tuned' = IF current_state' = "IDLE" THEN FALSE
               ELSE \/ tuned
                    \/ /\ current_state = "PROVIDING_FEEDBACK"
                       /\ freq > 0
                       /\ Abs(latest_result'.cents_offset) < IN_TUNE_CENTS
    /\ entered_at' = IF current_state' = "IDLE" THEN 0
                     ELSE IF current_state' # current_state THEN now'
                     ELSE entered_at
    /\ er_stays' = IF current_state' = "ERROR_RECOVERY"
                       /\ current_state # "ERROR_RECOVERY"
                   THEN Min(er_stays + 1, MaxErStays) ELSE er_stays
    /\ UNCHANGED << presses, fn_in, fn_out >>
    /\ entry_weak' = IF current_state' = "IDLE" THEN 0
                     ELSE IF current_state' = "LISTENING"
                             /\ current_state # "LISTENING"
                     THEN weak_signal_count' ELSE entry_weak
    /\ er_polls' = IF current_state = "ERROR_RECOVERY"
                   THEN (IF fresh THEN 1 ELSE Min(er_polls + 1, MaxErPolls))
                   ELSE 0
    /\ fb_beep' =
         LET tier == calculate_beep_interval(latest_result.cents_offset)
             tier1 == calculate_beep_interval(latest_result'.cents_offset)
         IN  IF current_state # "PROVIDING_FEEDBACK"
                \/ current_state' # "PROVIDING_FEEDBACK" \/ tier1 # tier
             THEN NoBeep
             ELSE IF "beep" \in cues'
                  THEN [beeped |-> TRUE, time |-> now, interval |-> tier]
                  ELSE fb_beep

\* a value that no interval takes
NotApplied == 0 - 1

\* The session record and the sequencer after setup().
MachineInit ==
    /\ current_state = "IDLE"
    /\ tuner_mode \in {"PLAY_TONE", "LISTEN_ONLY"}
    /\ target_string = 0
    /\ target_frequency = 0
    /\ detected_frequency = 0
    /\ state_entry_time = 0
    /\ last_beep_update = 0
    /\ weak_signal_count = 0
    /\ latest_result = NoResult
    /\ tuning_in_progress = FALSE
    /\ warning_played = FALSE
    /\ in_tune_announced = FALSE
    /\ beeping_active = FALSE
    /\ last_beep_time = 0
    /\ current_result = "NULL"
    /\ now = SETUP_DELAY_MS
    /\ amp_enabled = FALSE
    /\ prev = NoPoll
    /\ cues = {}
    /\ nosig_run = 0
    /\ entry_weak = 0
    /\ er_polls = 0
    /\ fresh = FALSE
    /\ entered_at = 0
    /\ er_stays = 0
    /\ fb_beep = NoBeep
    /\ tuned = FALSE

\* State after setup(), before the first loop() iteration.
SessionInit ==
    /\ MachineInit
    /\ twin = NoTwin
    /\ pressed = {}
    /\ event = NoEvent
    /\ presses = 0

Init == SessionInit /\ fn_in = 0 /\ fn_out = NotApplied

(***************************************************************************)
(* Environment steps                                                       *)
(***************************************************************************)
EnvFrame == /\ UNCHANGED session_vars
            /\ UNCHANGED hist_vars
            /\ UNCHANGED << fn_in, fn_out >>
            /\ prev' = NoPoll
            /\ cues' = {}

AdvanceTime(d) ==
    /\ now + d <= MaxTime
    /\ now' = (now + d) % ClockModulus
    /\ UNCHANGED << pressed, event, presses >>
    /\ EnvFrame

inject_button_press(button_id) ==
    /\ button_id \in PressIds
    /\ button_id \notin pressed
    /\ Cardinality(pressed) < MaxHeld
    /\ presses < MaxPresses
    /\ presses' = presses + 1
    /\ pressed' = pressed \cup {button_id}
    /\ event' = [ready |-> TRUE, id |-> button_id, state |-> "PRESSED"]
    /\ UNCHANGED now
    /\ EnvFrame

inject_button_release(button_id) ==
    /\ button_id \in pressed
    /\ pressed' = pressed \ {button_id}
    /\ event' = [ready |-> TRUE, id |-> button_id, state |-> "RELEASED"]
    /\ UNCHANGED << now, presses >>
    /\ EnvFrame

\* An event source that reports an id outside 1..6 (state_idle guards it).
\* Events are consumed in Idle only, so one that arrives during a session
\* is the same as one that arrives right after it.
InvalidButtonEvent(button_id) ==
    /\ button_id \in InvalidIds
    /\ current_state = "IDLE"
    /\ presses < MaxPresses
    /\ presses' = presses + 1
    /\ event' = [ready |-> TRUE, id |-> button_id, state |-> "PRESSED"]
    /\ UNCHANGED << now, pressed >>
    /\ EnvFrame

(***************************************************************************)
(* State handlers of main.cpp; one poll is one call of loop()              *)
(***************************************************************************)
\* The cancel block that ends every non-Idle handler ("Allow user to
\* cancel"): it runs after the state's own transition and overrides it.
Cancelled == ~button_is_pressed(target_string)

\* Variant: the release check chained as an "else if" after the state's
\* own transition.
AfterCancel_ElseIf(own_next) ==
    IF Cancelled /\ own_next = current_state THEN "IDLE" ELSE own_next

AfterCancel(own_next) == IF Cancelled THEN "IDLE" ELSE own_next

\* Variant: the cancel block leaves the amplifier on.
AmplifierAfterCancel_StaysOn(enabled) == enabled

\* The cancel block switches the amplifier off (audio_amplifier_disable).
AmplifierAfterCancel(enabled) == IF Cancelled THEN FALSE ELSE enabled

\* Variant: the cancel block keeps the target string.
TargetAfterCancel_Keep(string) == string

\* The cancel block clears the target string (target_string = 0).
TargetAfterCancel(string) == IF Cancelled THEN 0 ELSE string

\* Variant: the mode is ignored and the reference tone always played.
EntryStateForMode_AlwaysTone(mode) == "PLAYING_REFERENCE"

\* Variant: the two branches on the mode are exchanged.
EntryStateForMode_Swapped(mode) ==
    IF mode = "PLAY_TONE" THEN "WAITING_READY_BEEP" ELSE "PLAYING_REFERENCE"

EntryStateForMode(mode) ==
    IF mode = "PLAY_TONE" THEN "PLAYING_REFERENCE" ELSE "WAITING_READY_BEEP"

\* Variant: strict comparison against the maximum.
WeakSignalLimit_Strict(count) == count > MAX_WEAK_SIGNAL_COUNT

WeakSignalLimit(count) == count >= MAX_WEAK_SIGNAL_COUNT

NoSignalTimeout(elapsed) == elapsed >= MAX_NO_SIGNAL_TIME_MS

\* Variant: the recovery delay is never found elapsed.
RecoveryElapsed_Never(elapsed) == FALSE

\* Variant: strict comparison against the recovery delay.
RecoveryElapsed_Strict(elapsed) == elapsed > RECOVERY_DELAY_MS

RecoveryElapsed(elapsed) == elapsed >= RECOVERY_DELAY_MS

\* Variant: the playback of the detected and target notes is skipped.
DetectedNext_SkipPlayback == "PROVIDING_FEEDBACK"

\* The state Listening hands a detected note to (main.cpp:273).
DetectedNext == "PLAYBACK_USER_NOTE"

\* Variant: a detected frequency does not reset the counter.
WeakAfterPoll_NoReset(detected, count) ==
    IF detected THEN count ELSE count + 1

\* Variant: the counter of the previous stay is kept.
WeakOnListeningEntry_Keep(count) == count

\* weak_signal_count when the ready beep hands over to Listening
WeakOnListeningEntry(count) == 0

\* weak_signal_count after a frequency reading, in Listening and in
\* ProvidingFeedback.
WeakAfterPoll(detected, count) == IF detected THEN 0 ELSE count + 1

\* Variant: strict comparison against the tone duration.
ReferenceToneDone_Strict(elapsed) == elapsed > REFERENCE_TONE_DURATION_MS

ReferenceToneDone(elapsed) == elapsed >= REFERENCE_TONE_DURATION_MS

\* Variant: strict comparison against the beep duration.
ReadyBeepDone_Strict(elapsed) == elapsed > READY_BEEP_DURATION_MS

ReadyBeepDone(elapsed) == elapsed >= READY_BEEP_DURATION_MS

\* Variant: strict comparison against the playback duration.
PlaybackDone_Strict(elapsed) == elapsed > PLAYBACK_DURATION_MS

PlaybackDone(elapsed) == elapsed >= PLAYBACK_DURATION_MS

\* Variant: the target tone is not waited for.
TargetToneDone_NoWait(elapsed) == TRUE

TargetToneDone(elapsed) == elapsed >= TARGET_TONE_DURATION_MS

read_mode_switch(sw) == IF sw = "HIGH" THEN "PLAY_TONE" ELSE "LISTEN_ONLY"

state_idle(sw) ==
    /\ current_state = "IDLE"
    /\ UNCHANGED << now, pressed >>
    /\ UNCHANGED << detected_frequency, last_beep_update, weak_signal_count,
                    latest_result, tuning_in_progress, warning_played,
                    in_tune_announced, beeping_active, last_beep_time,
                    current_result >>
    /\ IF button_poll
       THEN /\ event' = NoEvent
            /\ IF event.state = "PRESSED"
               THEN /\ target_string' = event.id
                    /\ IF event.id < 1 \/ event.id > 6
                       THEN /\ prev' = ThisPoll(NoRead, event, "NONE")
                            /\ cues' = {}
                            /\ UNCHANGED << current_state, tuner_mode,
                                            target_frequency, state_entry_time,
                                            amp_enabled >>
                       ELSE /\ prev' = ThisPoll(NoRead, event, sw)
                            /\ target_frequency' = STRING_FREQUENCIES[event.id]
                            /\ amp_enabled' = TRUE
                            /\ tuner_mode' = read_mode_switch(sw)
                            /\ current_state' =
                                 EntryStateForMode(read_mode_switch(sw))
                            /\ state_entry_time' = now
                            /\ cues' = IF read_mode_switch(sw) = "PLAY_TONE"
                                       THEN {"reference_tone"}
                                       ELSE {"ready_beep"}
               ELSE /\ prev' = ThisPoll(NoRead, event, "NONE")
                    /\ cues' = {}
                    /\ UNCHANGED << current_state, tuner_mode, target_string,
                                    target_frequency, state_entry_time,
                                    amp_enabled >>
       ELSE /\ prev' = ThisPoll(NoRead, NoEvent, "NONE")
            /\ cues' = {}
            /\ UNCHANGED << event, current_state, tuner_mode, target_string,
                            target_frequency, state_entry_time, amp_enabled >>
    /\ PollHist(NoRead)

state_playing_reference ==
    /\ current_state = "PLAYING_REFERENCE"
    /\ LET elapsed == Elapsed(now, state_entry_time)
           timed == ReferenceToneDone(elapsed)
       IN  /\ current_state' = AfterCancel(IF timed THEN "WAITING_READY_BEEP"
                                           ELSE current_state)
           /\ state_entry_time' = IF timed THEN now ELSE state_entry_time
           /\ cues' = IF timed THEN {"ready_beep"} ELSE {}
    /\ target_string' = TargetAfterCancel(target_string)
    /\ amp_enabled' = AmplifierAfterCancel(amp_enabled)
    /\ prev' = ThisPoll(NoRead, NoEvent, "NONE")
    /\ UNCHANGED << now, pressed, event >>
    /\ UNCHANGED << tuner_mode, target_frequency, detected_frequency,
                    last_beep_update, weak_signal_count, latest_result,
                    tuning_in_progress, warning_played, in_tune_announced,
                    beeping_active, last_beep_time, current_result >>
    /\ PollHist(NoRead)

state_waiting_ready_beep ==
    /\ current_state = "WAITING_READY_BEEP"
    /\ LET elapsed == Elapsed(now, state_entry_time)
           timed == ReadyBeepDone(elapsed)
       IN  /\ current_state' = AfterCancel(IF timed THEN "LISTENING"
                                           ELSE current_state)
           /\ state_entry_time' = IF timed THEN now ELSE state_entry_time
           /\ weak_signal_count' =
                 IF timed THEN WeakOnListeningEntry(weak_signal_count)
                 ELSE weak_signal_count
           /\ detected_frequency' = IF timed THEN 0 ELSE detected_frequency
    /\ cues' = {}
    /\ target_string' = TargetAfterCancel(target_string)
    /\ amp_enabled' = AmplifierAfterCancel(amp_enabled)
    /\ prev' = ThisPoll(NoRead, NoEvent, "NONE")
    /\ UNCHANGED << now, pressed, event >>
    /\ UNCHANGED << tuner_mode, target_frequency, last_beep_update,
                    latest_result, tuning_in_progress, warning_played,
                    in_tune_announced, beeping_active, last_beep_time,
                    current_result >>
    /\ PollHist(NoRead)

state_listening(freq) ==
    /\ current_state = "LISTENING"
    /\ LET detected == freq > 0
           weak1 == WeakAfterPoll(detected, weak_signal_count)
           escalated == ~detected /\ WeakSignalLimit(weak1)
           s1 == IF detected THEN DetectedNext
                 ELSE IF escalated THEN "ERROR_RECOVERY" ELSE current_state
           e1 == IF detected \/ escalated THEN now ELSE state_entry_time
           \* "Check for timeout" reads state_entry_time after the branch above
           timeout == NoSignalTimeout(Elapsed(now, e1))
       IN  /\ current_state' = AfterCancel(IF timeout THEN "ERROR_RECOVERY"
                                           ELSE s1)
           /\ state_entry_time' = IF timeout THEN now ELSE e1
           /\ weak_signal_count' = weak1
           /\ detected_frequency' = IF detected THEN freq
                                    ELSE detected_frequency
           /\ latest_result' = IF detected
                               THEN Analysis[freq, target_string]
                               ELSE latest_result
           /\ cues' = IF detected THEN {"user_tone"} ELSE {}
    /\ target_string' = TargetAfterCancel(target_string)
    /\ amp_enabled' = AmplifierAfterCancel(amp_enabled)
    /\ prev' = ThisPoll(freq, NoEvent, "NONE")
    /\ UNCHANGED << now, pressed, event >>
    /\ UNCHANGED << tuner_mode, target_frequency, last_beep_update,
                    tuning_in_progress, warning_played, in_tune_announced,
                    beeping_active, last_beep_time, current_result >>
    /\ PollHist(freq)

state_playback_user_note ==
    /\ current_state = "PLAYBACK_USER_NOTE"
    /\ LET elapsed == Elapsed(now, state_entry_time)
           timed == PlaybackDone(elapsed)
           \* delay(PAUSE_BETWEEN_TONES_MS) blocks inside the handler
           after == IF timed THEN (now + PAUSE_BETWEEN_TONES_MS) % ClockModulus
                    ELSE now
       IN  /\ now' = after
           /\ current_state' = AfterCancel(IF timed THEN "PLAYBACK_TARGET_NOTE"
                                           ELSE current_state)
           /\ state_entry_time' = IF timed THEN after ELSE state_entry_time
           /\ cues' = IF timed THEN {"target_tone"} ELSE {}
    /\ target_string' = TargetAfterCancel(target_string)
    /\ amp_enabled' = AmplifierAfterCancel(amp_enabled)
    /\ prev' = ThisPoll(NoRead, NoEvent, "NONE")
    /\ UNCHANGED << pressed, event >>
    /\ UNCHANGED << tuner_mode, target_frequency, detected_frequency,
                    last_beep_update, weak_signal_count, latest_result,
                    tuning_in_progress, warning_played, in_tune_announced,
                    beeping_active, last_beep_time, current_result >>
    /\ PollHist(NoRead)

state_playback_target_note ==
    /\ current_state = "PLAYBACK_TARGET_NOTE"
    /\ LET elapsed == Elapsed(now, state_entry_time)
           timed == TargetToneDone(elapsed)
           seq1 == IF timed
                   THEN generate_dynamic_beep_feedback(SeqState, latest_result)
                   ELSE SeqState
       IN  /\ current_state' = AfterCancel(IF timed THEN "PROVIDING_FEEDBACK"
                                           ELSE current_state)
           /\ beeping_active' = seq1.beeping_active
           /\ last_beep_time' = seq1.last_beep_time
           /\ current_result' = seq1.current_result
           /\ last_beep_update' = IF timed THEN now ELSE last_beep_update
           /\ tuning_in_progress' = IF timed THEN TRUE ELSE tuning_in_progress
    /\ cues' = {}
    /\ target_string' = TargetAfterCancel(target_string)
    /\ amp_enabled' = AmplifierAfterCancel(amp_enabled)
    /\ prev' = ThisPoll(NoRead, NoEvent, "NONE")
    /\ UNCHANGED << now, pressed, event >>
    /\ UNCHANGED << tuner_mode, target_frequency, detected_frequency,
                    state_entry_time, weak_signal_count, latest_result,
                    warning_played, in_tune_announced >>
    /\ PollHist(NoRead)

\* Variant: the session ends by itself once the string is in tune.
FeedbackOwnNext_ExitInTune(lost, in_tune) ==
    IF lost THEN "LISTENING" ELSE IF in_tune THEN "IDLE" ELSE current_state

\* The state ProvidingFeedback moves to by its own logic (before the cancel
\* block): only a sustained loss of signal leaves it.
FeedbackOwnNext(lost, in_tune) ==
    IF lost THEN "LISTENING" ELSE current_state

\* Variant: the first analysis of the session is kept.
RefreshedResult_KeepFirst(detected, result, latest) == latest

\* latest_result after the reading of a ProvidingFeedback poll
RefreshedResult(detected, result, latest) ==
    IF detected THEN result ELSE latest

state_providing_feedback(freq) ==
    /\ current_state = "PROVIDING_FEEDBACK"
    /\ LET current_time == now
           update == Elapsed(current_time, last_beep_update)
                        >= BEEP_UPDATE_INTERVAL_MS
           beeped == update /\ BeepDue(SeqState, latest_result, current_time)
           seq1 == IF update
                   THEN audio_sequencer_update_beeps(SeqState, latest_result,
                                                     current_time)
                   ELSE SeqState
           detected == freq > 0
           result == Analysis[freq, target_string]
           seq2 == IF detected
                   THEN generate_dynamic_beep_feedback(seq1, result)
                   ELSE seq1
           in_tune == detected /\ Abs(result.cents_offset) < IN_TUNE_CENTS
           weak1 == WeakAfterPoll(detected, weak_signal_count)
           lost == ~detected /\ WeakSignalLimit(weak1)
       IN  /\ current_state' = AfterCancel(FeedbackOwnNext(lost, in_tune))
           /\ state_entry_time' = IF lost THEN now ELSE state_entry_time
           /\ weak_signal_count' = weak1
           /\ latest_result' = RefreshedResult(detected, result, latest_result)
           /\ last_beep_update' = IF update THEN current_time
                                  ELSE last_beep_update
           /\ beeping_active' = seq2.beeping_active
           /\ last_beep_time' = seq2.last_beep_time
           /\ current_result' = seq2.current_result
           /\ in_tune_announced' = (in_tune_announced \/ in_tune)
           /\ cues' = (IF beeped THEN {"beep"} ELSE {})
                      \cup (IF in_tune /\ ~in_tune_announced
                            THEN {"in_tune_announcement"} ELSE {})
    /\ target_string' = TargetAfterCancel(target_string)
    /\ amp_enabled' = AmplifierAfterCancel(amp_enabled)
    /\ tuning_in_progress' = IF Cancelled THEN FALSE ELSE tuning_in_progress
    /\ prev' = ThisPoll(freq, NoEvent, "NONE")
    /\ UNCHANGED << now, pressed, event >>
    /\ UNCHANGED << tuner_mode, target_frequency, detected_frequency,
                    warning_played >>
    /\ PollHist(freq)

\* Variant: the cancel block does not clear the latch.
WarningPlayedAfter_CancelKeeps(recovered) ==
    IF recovered THEN FALSE ELSE TRUE

\* warning_played at the end of an ErrorRecovery poll: cleared when the
\* stay ends (recovery or cancel), set otherwise.
WarningPlayedAfter(recovered) ==
    IF recovered \/ Cancelled THEN FALSE ELSE TRUE

state_error_recovery ==
    /\ current_state = "ERROR_RECOVERY"
    /\ LET elapsed == Elapsed(now, state_entry_time)
           recovered == RecoveryElapsed(elapsed)
       IN  /\ cues' = IF ~warning_played THEN {"warning"} ELSE {}
           /\ current_state' = AfterCancel(IF recovered THEN "LISTENING"
                                           ELSE current_state)
           /\ state_entry_time' = IF recovered THEN now ELSE state_entry_time
           /\ weak_signal_count' = IF recovered THEN 0 ELSE weak_signal_count
           /\ warning_played' = WarningPlayedAfter(recovered)
    /\ target_string' = TargetAfterCancel(target_string)
    /\ amp_enabled' = AmplifierAfterCancel(amp_enabled)
    /\ prev' = ThisPoll(NoRead, NoEvent, "NONE")
    /\ UNCHANGED << now, pressed, event >>
    /\ UNCHANGED << tuner_mode, target_frequency, detected_frequency,
                    last_beep_update, latest_result, tuning_in_progress,
                    in_tune_announced, beeping_active, last_beep_time,
                    current_result >>
    /\ PollHist(NoRead)

\* loop(): dispatch on current_state
loop ==
    \/ \E sw \in {"HIGH", "LOW"} : state_idle(sw)
    \/ state_playing_reference
    \/ state_waiting_ready_beep
    \/ \E freq \in FreqInputs : state_listening(freq)
    \/ state_playback_user_note
    \/ state_playback_target_note
    \/ \E freq \in FreqInputs : state_providing_feedback(freq)
    \/ state_error_recovery

Next ==
    \/ loop
    \/ \E d \in TimeSteps : AdvanceTime(d)
    \/ \E b \in PressIds : inject_button_press(b)
    \/ \E b \in PressIds : inject_button_release(b)
    \/ \E b \in InvalidIds : InvalidButtonEvent(b)

Spec == Init /\ [][Next]_vars

(***************************************************************************)
(* One session: a string button is pressed right after setup() and is     *)
(* released at some time, or never.                                        *)
(***************************************************************************)
InitPressed ==
    /\ MachineInit
    /\ twin = NoTwin
    /\ \E b \in PressIds :
          /\ pressed = {b}
          /\ event = [ready |-> TRUE, id |-> b, state |-> "PRESSED"]
    /\ presses = 1
    /\ fn_in = 0
    /\ fn_out = NotApplied

NextSession ==
    \/ loop
    \/ \E d \in TimeSteps : AdvanceTime(d)
    \/ \E b \in PressIds : inject_button_release(b)

\* The Arduino runtime calls loop() forever and millis() keeps advancing.
SpecLive ==
    /\ InitPressed
    /\ [][NextSession]_vars
    /\ WF_vars(loop)
    /\ WF_vars(\E d \in TimeSteps : AdvanceTime(d))

\* The same session on a fine clock.
FineSteps == {100}
MaxFineTime == 4600

AdvanceFine(d) ==
    /\ now + d <= MaxFineTime
    /\ now' = (now + d) % ClockModulus
    /\ UNCHANGED << pressed, event, presses >>
    /\ EnvFrame

NextFine ==
    \/ loop
    \/ \E d \in FineSteps : AdvanceFine(d)
    \/ \E b \in PressIds : inject_button_release(b)

SpecFine == InitPressed /\ [][NextFine]_vars

(***************************************************************************)
(* The same session with the state machines of main_test.cpp and          *)
(* test_state_machine.cpp run alongside, each for as long as it is in the *)
(* state of main.cpp's machine.                                            *)
(***************************************************************************)
InitTwin ==
    /\ MachineInit
    /\ twin = [NoTwin EXCEPT !.on = TRUE]
    /\ \E b \in PressIds :
          /\ pressed = {b}
          /\ event = [ready |-> TRUE, id |-> b, state |-> "PRESSED"]
    /\ presses = 1
    /\ fn_in = 0
    /\ fn_out = NotApplied

SpecTwin == InitTwin /\ [][NextSession]_vars

(***************************************************************************)
(* Sessions in a row: the button pressed right after setup() is released  *)
(* and a button is pressed again, on a clock that leaves the time for a   *)
(* second session to reach ProvidingFeedback.                              *)
(***************************************************************************)
LongSteps == {2000}
MaxLongTime == 13600

AdvanceLong(d) ==
    /\ now + d <= MaxLongTime
    /\ now' = (now + d) % ClockModulus
    /\ UNCHANGED << pressed, event, presses >>
    /\ EnvFrame

NextAgain ==
    \/ loop
    \/ \E d \in LongSteps : AdvanceLong(d)
    \/ \E b \in PressIds : inject_button_press(b)
    \/ \E b \in PressIds : inject_button_release(b)

SpecAgain == InitPressed /\ [][NextAgain]_vars

(***************************************************************************)
(* The cadence mapper as a function of its argument                        *)
(***************************************************************************)
InitBeep ==
    /\ SessionInit
    /\ fn_in \in (-MaxCents)..MaxCents
    /\ fn_out = NotApplied

ApplyBeepInterval ==
    /\ fn_out = NotApplied
    /\ fn_out' = calculate_beep_interval(fn_in)
    /\ UNCHANGED << session_vars, hist_vars, now, pressed, event, prev, cues,
                    presses, fn_in >>

NextBeep == ApplyBeepInterval

SpecBeep == InitBeep /\ [][NextBeep]_vars

(***************************************************************************)
(* The converter and the analyzer as functions of their arguments          *)
(***************************************************************************)
MaxNoteLen == 4
MaxOctave == 9
MaxStringArg == 8
MaxNoteProbe == 53000
MaxTuneProbe == 34000

NoteChars == {"A", "C", "c", "b", "H", "#", "0", "4", "8", "9"}

RECURSIVE CharSeqs(_)
CharSeqs(n) ==
    IF n = 0 THEN {<< >>}
    ELSE LET shorter == CharSeqs(n - 1)
         IN  shorter \cup {Append(s, c) : s \in {t \in shorter : Len(t) = n - 1},
                                          c \in NoteChars}

\* every well-formed spelling: letter, optional accidental, octave 0..8
Spellings ==
    {<< l, Digits[o + 1] >> : l \in {"A", "B", "C", "D", "E", "F", "G"},
                              o \in 0..8}
        \cup {<< l, a, Digits[o + 1] >> :
                  l \in {"A", "B", "C", "D", "E", "F", "G"},
                  a \in {"#", "b"}, o \in 0..8}

NoteArgs ==
    {[null |-> TRUE, chars |-> << >>]}
        \cup {[null |-> FALSE, chars |-> s] :
                  s \in CharSeqs(MaxNoteLen) \cup Spellings}

CalcLetters == {"A", "B", "C", "D", "E", "F", "G", "c", "H", "#", "4"}

CalcArgs ==
    [note_letter : CalcLetters, octave : (0 - 1)..MaxOctave,
     is_sharp : BOOLEAN, is_flat : BOOLEAN]

StringArgs == (0 - 1)..MaxStringArg

NoteProbes == (0 - 1)..MaxNoteProbe

TuneProbes == ((0 - 1)..0) \cup {5000, 44000, 100000} \cup (7900..MaxTuneProbe)

CentsFreqs == {0 - 1, 0, 8241, 11000, 11001, 11064, 22000, 43500, 44000, 44001,
               44500, 46616, 88000, 99999, 100000}

TuneFreqs == {0 - 1, 0, 5000, 8241, 9580, 11000, 11064, 44000, 100000}

NotCalled == [fn |-> "none"]

\* Clock values on both sides of the wrap of millis(), and one offset of
\* each cadence tier.
ClockProbes == {0, 50, 400, 1000, 1200,
                ClockModulus - 1200, ClockModulus - 600, ClockModulus - 100,
                ClockModulus - 50, ClockModulus - 1}
BeepCents == {0, 4, 5, 15, 25, 40, 50, 75, 100}

InitFn ==
    /\ SessionInit
    /\ fn_out = NotCalled
    /\ \/ \E a \in NoteArgs : fn_in = [fn |-> "parseNoteDetailed", note |-> a]
       \/ \E a \in CalcArgs : fn_in = [fn |-> "calculateNoteFrequency", arg |-> a]
       \/ \E n \in StringArgs : fn_in = [fn |-> "getString", string_num |-> n]
       \/ \E n \in StringArgs : fn_in = [fn |-> "playGuitarString", string_num |-> n]
       \/ \E f \in NoteProbes : fn_in = [fn |-> "frequencyToNote", frequency |-> f]
       \/ \E f \in TuneProbes : fn_in = [fn |-> "analyze_tuning_auto", frequency |-> f]
       \/ \E c \in (-MaxCents)..MaxCents :
              fn_in = [fn |-> "get_tuning_direction", cents |-> c]
       \/ \E d \in CentsFreqs, t \in CentsFreqs :
              fn_in = [fn |-> "calculate_cents_offset", detected |-> d, target |-> t]
       \/ \E f \in TuneFreqs, n \in StringArgs :
              fn_in = [fn |-> "analyze_tuning", frequency |-> f, string_num |-> n]
       \/ \E a \in BOOLEAN, c \in BeepCents, l \in ClockProbes, t \in ClockProbes :
              fn_in = [fn |-> "audio_sequencer_update_beeps", active |-> a,
                       cents |-> c, last |-> l, time |-> t]

FnFrame ==
    UNCHANGED << session_vars, hist_vars, now, pressed, event, prev, cues,
                 presses, fn_in >>

Call(fn) == fn_out = NotCalled /\ fn_in.fn = fn /\ FnFrame

CallParseNoteDetailed ==
    /\ Call("parseNoteDetailed")
    /\ fn_out' = [fn |-> fn_in.fn, parsed |-> parseNoteDetailed(fn_in.note),
                  frequency |-> parseNote(fn_in.note)]

CallCalculateNoteFrequency ==
    /\ Call("calculateNoteFrequency")
    /\ fn_out' = [fn |-> fn_in.fn,
                  frequency |-> calculateNoteFrequency(
                      fn_in.arg.note_letter, fn_in.arg.octave,
                      fn_in.arg.is_sharp, fn_in.arg.is_flat)]

CallGetString ==
    /\ Call("getString")
    /\ fn_out' = [fn |-> fn_in.fn,
                  frequency |-> getStringFrequency(fn_in.string_num),
                  note |-> getStringNote(fn_in.string_num)]

CallPlayGuitarString ==
    /\ Call("playGuitarString")
    /\ fn_out' = [fn |-> fn_in.fn, tones |-> playGuitarString(fn_in.string_num)]

CallFrequencyToNote ==
    /\ Call("frequencyToNote")
    /\ fn_out' = [fn |-> fn_in.fn, note |-> frequencyToNote(fn_in.frequency)]

CallAnalyzeTuningAuto ==
    /\ Call("analyze_tuning_auto")
    /\ fn_out' = [fn |-> fn_in.fn, result |-> analyze_tuning_auto(fn_in.frequency)]

CallAnalyzeTuning ==
    /\ Call("analyze_tuning")
    /\ fn_out' = [fn |-> fn_in.fn,
                  result |-> analyze_tuning(fn_in.frequency, fn_in.string_num)]

CallGetTuningDirection ==
    /\ Call("get_tuning_direction")
    /\ fn_out' = [fn |-> fn_in.fn, direction |-> get_tuning_direction(fn_in.cents)]

\* the offset returned, with the logarithm it is the integer part of
CallCalculateCentsOffset ==
    /\ Call("calculate_cents_offset")
    /\ fn_out' = [fn |-> fn_in.fn,
                  cents |-> calculate_cents_offset(fn_in.detected, fn_in.target),
                  log |-> IF fn_in.detected > 0 /\ fn_in.target > 0
                          THEN Log2Signed(fn_in.detected, fn_in.target) ELSE 0]

\* One call of audio_sequencer_update_beeps with current_result pointing to
\* a result of the given offset: whether it beeps, and the state it leaves.
CallUpdateBeeps ==
    /\ Call("audio_sequencer_update_beeps")
    /\ LET seq == [beeping_active |-> fn_in.active,
                   last_beep_time |-> fn_in.last,
                   current_result |-> "LATEST"]
           deref == [NoResult EXCEPT !.cents_offset = fn_in.cents]
       IN  fn_out' = [fn |-> fn_in.fn,
                      beeped |-> BeepDue(seq, deref, fn_in.time),
                      seq |-> audio_sequencer_update_beeps(seq, deref,
                                                           fn_in.time)]

NextFn ==
    \/ CallParseNoteDetailed
    \/ CallCalculateNoteFrequency
    \/ CallGetString
    \/ CallPlayGuitarString
    \/ CallFrequencyToNote
    \/ CallAnalyzeTuningAuto
    \/ CallAnalyzeTuning
    \/ CallGetTuningDirection
    \/ CallCalculateCentsOffset
    \/ CallUpdateBeeps

SpecFn == InitFn /\ [][NextFn]_vars

Returned(fn) == fn_out.fn = fn

(***************************************************************************)
(* Properties                                                              *)
(***************************************************************************)
Polled == prev.state # "NONE"

\* time elapsed, at the latest poll, since the state it started in was entered
PrevElapsed == Elapsed(prev.time, prev.since)

NonIdleStates == TunerStates \ {"IDLE"}

\* C1: cancel always wins. A poll of any non-Idle state that finds the
\* targeted button not held ends in Idle with target_string = 0 and the
\* amplifier disabled, whatever other transition condition holds in it.
C1_CancelAlwaysWins ==
    (prev.state \in NonIdleStates /\ ~prev.held)
        => (current_state = "IDLE" /\ target_string = 0 /\ ~amp_enabled)

\* a release found by the very poll in which Listening detects a note
C1_Witness ==
    /\ prev.state = "LISTENING" /\ ~prev.held /\ prev.freq > 0
    /\ current_state = "IDLE" /\ target_string = 0 /\ ~amp_enabled

ValidPress(ev) == ev.ready /\ ev.state = "PRESSED" /\ ev.id \in Strings

C2_PressHandled ==
    (prev.state = "IDLE" /\ ValidPress(prev.ev)) =>
        /\ target_string = prev.ev.id
        /\ target_frequency = STRING_FREQUENCIES[prev.ev.id]
        /\ amp_enabled
        /\ tuner_mode = (IF prev.sw = "HIGH" THEN "PLAY_TONE"
                         ELSE "LISTEN_ONLY")
        /\ (tuner_mode = "PLAY_TONE" => current_state = "PLAYING_REFERENCE")
        /\ (tuner_mode = "LISTEN_ONLY" =>
               current_state = "WAITING_READY_BEEP" /\ "ready_beep" \in cues)
        /\ state_entry_time = now
        /\ now = prev.time

\* C2: session start. The machine starts in Idle, and an Idle poll that
\* receives a PRESSED event for string k in 1..6 records the target (string
\* and reference frequency), enables the amplifier, reads the mode switch and
\* ends in PlayingReference (Play-Tone) or WaitingReadyBeep with the ready
\* cue (Listen-Only), the state-entry timestamp being the current time.
C2_SessionStart == (current_state = "IDLE") /\ []C2_PressHandled

C2_Witness ==
    /\ prev.state = "IDLE" /\ ValidPress(prev.ev) /\ prev.sw = "LOW"
    /\ current_state = "WAITING_READY_BEEP" /\ target_string = prev.ev.id

DetectionPoll ==
    prev.state = "LISTENING" /\ prev.freq > 0 /\ prev.held

AnalysedAgainstTarget ==
    /\ latest_result.target_string = prev.target
    /\ latest_result.target_frequency = STRING_FREQUENCIES[prev.target]
    /\ latest_result.detected_frequency = prev.freq
    /\ latest_result.cents_offset =
          calculate_cents_offset(prev.freq, STRING_FREQUENCIES[prev.target])

NoSignalPoll(state) ==
    prev.state = state /\ prev.freq # NoRead /\ prev.freq <= 0 /\ prev.held

\* C4: weak-signal escalation. In a stay in Listening entered with the
\* counter at 0, consecutive no-signal polls (button held, timeout not
\* reached) keep the machine in Listening for the first
\* MAX_WEAK_SIGNAL_COUNT - 1 polls and move it to ErrorRecovery exactly at
\* the MAX_WEAK_SIGNAL_COUNT-th, whose time becomes the state-entry timestamp.
C4_WeakSignalEscalation ==
    (NoSignalPoll("LISTENING") /\ entry_weak = 0
        /\ PrevElapsed < MAX_NO_SIGNAL_TIME_MS) =>
        /\ nosig_run <= MAX_WEAK_SIGNAL_COUNT
        /\ (nosig_run < MAX_WEAK_SIGNAL_COUNT => current_state = "LISTENING")
        /\ (nosig_run = MAX_WEAK_SIGNAL_COUNT =>
               current_state = "ERROR_RECOVERY" /\ state_entry_time = prev.time)

C4_Witness ==
    /\ NoSignalPoll("LISTENING") /\ entry_weak = 0
    /\ PrevElapsed < MAX_NO_SIGNAL_TIME_MS
    /\ nosig_run = MAX_WEAK_SIGNAL_COUNT
    /\ current_state = "ERROR_RECOVERY"

\* C5: the no-signal timeout takes precedence. A Listening poll made when
\* the time since Listening was entered has reached MAX_NO_SIGNAL_TIME_MS,
\* button held, ends in ErrorRecovery whatever the weak-signal counter and
\* the frequency read in that poll.
C5_TimeoutPrecedence ==
    (prev.state = "LISTENING" /\ prev.held
        /\ PrevElapsed >= MAX_NO_SIGNAL_TIME_MS)
        => current_state = "ERROR_RECOVERY"

\* C6: recovery. An ErrorRecovery poll with the button held moves to
\* Listening if and only if at least the recovery delay has elapsed since
\* ErrorRecovery was entered; the transition resets the weak-signal counter
\* and sets the state-entry timestamp to the current time.
C6_Recovery ==
    (prev.state = "ERROR_RECOVERY" /\ prev.held) =>
        /\ (current_state = "LISTENING") <=> (PrevElapsed >= RECOVERY_DELAY_MS)
        /\ current_state \in {"LISTENING", "ERROR_RECOVERY"}
        /\ (current_state = "LISTENING" =>
               weak_signal_count = 0 /\ state_entry_time = now
               /\ now = prev.time)

C6_Witness ==
    /\ prev.state = "ERROR_RECOVERY" /\ prev.held
    /\ PrevElapsed = RECOVERY_DELAY_MS /\ prev.weak > 0
    /\ current_state = "LISTENING" /\ weak_signal_count = 0

\* C7: the warning cue is emitted once per ErrorRecovery entry: at the first
\* poll of each stay in ErrorRecovery, at no later poll of that stay, and at
\* no poll of another state, after any sequence of sessions, cancels and
\* recoveries.
C7_WarningOncePerEntry ==
    /\ (prev.state = "ERROR_RECOVERY" => (("warning" \in cues) <=> (er_polls = 1)))
    /\ (prev.state # "ERROR_RECOVERY" => "warning" \notin cues)

\* the first poll of a second stay in ErrorRecovery
C7_Witness ==
    /\ prev.state = "ERROR_RECOVERY" /\ er_stays = 2 /\ er_polls = 1
    /\ "warning" \in cues

\* C8: no automatic exit from ProvidingFeedback. With the button held and a
\* frequency > 0 read, a poll leaves the machine in ProvidingFeedback, also
\* when the result is in tune; the state is left only to Idle (button
\* released) or to Listening (no signal, counter at the maximum).
C8_NoAutomaticExit ==
    prev.state = "PROVIDING_FEEDBACK" =>
        /\ current_state \in {"PROVIDING_FEEDBACK", "IDLE", "LISTENING"}
        /\ (prev.held /\ prev.freq > 0 => current_state = "PROVIDING_FEEDBACK")
        /\ (current_state = "IDLE" => ~prev.held)
        /\ (current_state = "LISTENING" =>
               prev.freq <= 0 /\ prev.weak + 1 >= MAX_WEAK_SIGNAL_COUNT)

\* an in-tune reading at a later poll of a stay in ProvidingFeedback
C8_Witness ==
    /\ prev.state = "PROVIDING_FEEDBACK" /\ prev.held /\ prev.freq > 0
    /\ Abs(latest_result.cents_offset) < IN_TUNE_CENTS
    /\ in_tune_announced /\ "in_tune_announcement" \notin cues
    /\ current_state = "PROVIDING_FEEDBACK"

\* C9: signal loss in ProvidingFeedback. With the button held, a poll
\* returns to Listening exactly when the number of consecutive no-signal
\* polls of the stay reaches MAX_WEAK_SIGNAL_COUNT; a reading > 0 restarts
\* the count, so no-signal polls that are not consecutive never add up.
C9_SignalLoss ==
    (prev.state = "PROVIDING_FEEDBACK" /\ prev.held) =>
        /\ (current_state = "LISTENING") <=> (nosig_run = MAX_WEAK_SIGNAL_COUNT)
        /\ nosig_run <= MAX_WEAK_SIGNAL_COUNT
        /\ (prev.freq > 0 => nosig_run = 0 /\ weak_signal_count = 0)

C9_Witness ==
    /\ NoSignalPoll("PROVIDING_FEEDBACK")
    /\ nosig_run = MAX_WEAK_SIGNAL_COUNT
    /\ current_state = "LISTENING"

\* the tiers as the claim lists them
TierInterval(magnitude) ==
    IF magnitude >= 100 THEN 100
    ELSE IF magnitude >= 75 THEN 150
    ELSE IF magnitude >= 50 THEN 200
    ELSE IF magnitude >= 40 THEN 300
    ELSE IF magnitude >= 25 THEN 500
    ELSE IF magnitude >= 15 THEN 800
    ELSE IF magnitude >= 5 THEN 1200
    ELSE 0

C11_BeepCadence ==
    (prev.state = "PROVIDING_FEEDBACK" /\ prev.beep.beeped) =>
        (("beep" \in cues)
            <=> (Elapsed(prev.time, prev.beep.time) >= prev.beep.interval))

\* C12: beeping stops when in tune. A feedback beep is triggered only by a
\* poll of ProvidingFeedback and only while the most recently analysed
\* result has |cents_offset| >= 5; after an in-tune result no beep is
\* triggered until a later result is off by 5 cents or more.
C12_BeepingStopsInTune ==
    "beep" \in cues =>
        (prev.state = "PROVIDING_FEEDBACK" /\ Abs(prev.cents) >= IN_TUNE_CENTS)

\* a cadence update made after a beep and an in-tune reading: no beep
C12_Witness ==
    /\ prev.state = "PROVIDING_FEEDBACK" /\ prev.held
    /\ Abs(prev.cents) < IN_TUNE_CENTS
    /\ last_beep_update = prev.time /\ last_beep_time > 0
    /\ "beep" \notin cues

\* C13: in PlayingReference with the button held, a poll moves to
\* WaitingReadyBeep if and only if at least REFERENCE_TONE_DURATION_MS have
\* elapsed since PlayingReference was entered; that poll plays the ready cue
\* (no later poll of WaitingReadyBeep plays it again) and sets the
\* state-entry timestamp to the current time; earlier polls change nothing.
C13_ReferenceTone ==
    /\ (prev.state = "PLAYING_REFERENCE" /\ prev.held) =>
          /\ (current_state = "WAITING_READY_BEEP")
                <=> (PrevElapsed >= REFERENCE_TONE_DURATION_MS)
          /\ (current_state = "WAITING_READY_BEEP" =>
                 /\ cues = {"ready_beep"}
                 /\ state_entry_time = now /\ now = prev.time)
          /\ (current_state # "WAITING_READY_BEEP" =>
                 /\ current_state = "PLAYING_REFERENCE"
                 /\ cues = {}
                 /\ state_entry_time = prev.entry)
    /\ (prev.state = "WAITING_READY_BEEP" => "ready_beep" \notin cues)

\* the poll made exactly REFERENCE_TONE_DURATION_MS after the entry
C13_Witness ==
    /\ prev.state = "PLAYING_REFERENCE" /\ prev.held
    /\ PrevElapsed = REFERENCE_TONE_DURATION_MS
    /\ current_state = "WAITING_READY_BEEP" /\ "ready_beep" \in cues

\* C14: in WaitingReadyBeep with the button held, a poll moves to Listening
\* if and only if at least READY_BEEP_DURATION_MS have elapsed since
\* WaitingReadyBeep was entered; on that entry the weak-signal counter is 0
\* and the state-entry timestamp is the current time.
C14_ReadyBeep ==
    (prev.state = "WAITING_READY_BEEP" /\ prev.held) =>
        /\ (current_state = "LISTENING")
              <=> (PrevElapsed >= READY_BEEP_DURATION_MS)
        /\ current_state \in {"LISTENING", "WAITING_READY_BEEP"}
        /\ (current_state = "LISTENING" =>
               /\ weak_signal_count = 0
               /\ state_entry_time = now /\ now = prev.time)
        /\ (current_state # "LISTENING" =>
               weak_signal_count = prev.weak /\ state_entry_time = prev.entry)

\* a session that starts with the counter left over from a cancelled one
C14_Witness ==
    /\ prev.state = "WAITING_READY_BEEP" /\ prev.held /\ prev.weak > 0
    /\ current_state = "LISTENING" /\ weak_signal_count = 0

\* C15: the mode is fixed for a session. No poll of a non-Idle state changes
\* tuner_mode, whatever level the switch has meanwhile, and the machine is in
\* PlayingReference only in a session whose mode is Play-Tone.
C15_ModeFixed ==
    /\ (prev.state \in NonIdleStates => tuner_mode = prev.mode)
    /\ (current_state = "PLAYING_REFERENCE" => tuner_mode = "PLAY_TONE")

C15_Witness ==
    /\ prev.state = "PLAYING_REFERENCE" /\ prev.held
    /\ prev.mode = "PLAY_TONE" /\ tuner_mode = "PLAY_TONE"
    /\ current_state = "WAITING_READY_BEEP"

\* C16: no poll blocks. The clock does not advance inside a poll: every
\* handler returns without sleeping, every wait being a stay in the state.
C16_NoPollBlocks == Polled => now = prev.time

ToneCues == {"ready_beep", "reference_tone", "user_tone", "target_tone"}

\* C17 as stated: a poll of a non-Idle state that finds the targeted button
\* released takes no other transition and runs none of its actions: no ready
\* cue, reference or playback tone is started, and the weak-signal counter
\* and the state-entry timestamp are as before the poll.
C17_CancelFirst ==
    (prev.state \in NonIdleStates /\ ~prev.held) =>
        /\ current_state = "IDLE"
        /\ cues \cap ToneCues = {}
        /\ weak_signal_count = prev.weak
        /\ state_entry_time = prev.entry

\* C17 (amended): the release check is the last step of a poll. A poll of a
\* non-Idle state that finds the targeted button released ends in Idle with
\* the target cleared and the amplifier disabled, after the state's own
\* transition has been evaluated and its actions have run: the ready cue or
\* the playback tone is started, and the weak-signal counter and the
\* state-entry timestamp are modified, exactly as in a poll with the button
\* held.
C17_CancelAfterOwnTransition ==
    (prev.state \in NonIdleStates /\ ~prev.held) =>
        /\ current_state = "IDLE" /\ target_string = 0 /\ ~amp_enabled
        /\ (prev.state = "PLAYING_REFERENCE" =>
              /\ ("ready_beep" \in cues)
                    <=> (PrevElapsed >= REFERENCE_TONE_DURATION_MS)
              /\ state_entry_time =
                    (IF PrevElapsed >= REFERENCE_TONE_DURATION_MS
                     THEN prev.time ELSE prev.entry))
        /\ (prev.state = "WAITING_READY_BEEP" =>
              /\ state_entry_time =
                    (IF PrevElapsed >= READY_BEEP_DURATION_MS
                     THEN prev.time ELSE prev.entry)
              /\ weak_signal_count =
                    (IF PrevElapsed >= READY_BEEP_DURATION_MS
                     THEN 0 ELSE prev.weak))
        /\ (prev.state = "LISTENING" =>
              /\ ("user_tone" \in cues) <=> (prev.freq > 0)
              /\ weak_signal_count =
                    (IF prev.freq > 0 THEN 0 ELSE prev.weak + 1))
        /\ (prev.state = "PLAYBACK_USER_NOTE" =>
              ("target_tone" \in cues) <=> (PrevElapsed >= PLAYBACK_DURATION_MS))

\* a release found by the poll that completes the reference tone
C17_Witness ==
    /\ prev.state = "PLAYING_REFERENCE" /\ ~prev.held
    /\ "ready_beep" \in cues /\ state_entry_time = prev.time
    /\ current_state = "IDLE"

C20_IdleLeftOnlyByValidPress ==
    (prev.state = "IDLE" /\ ~ValidPress(prev.ev)) =>
        /\ current_state = "IDLE"
        /\ target_string = 0
        /\ ~amp_enabled
        /\ cues = {}

\* the clock of the model can still reach the end of the recovery delay
RoomToRecover == state_entry_time + RECOVERY_DELAY_MS <= MaxTime

\* C19: every error path recovers. Whenever the machine is in ErrorRecovery,
\* polls being made and the clock advancing, it is eventually in Listening
\* (button held) or in Idle (button released), at every
\* Listening/ErrorRecovery cycle.
C19_ErrorRecovers ==
    (current_state = "ERROR_RECOVERY" /\ RoomToRecover)
        ~> (current_state \in {"LISTENING", "IDLE"})

\* the recovery that ends a second stay in ErrorRecovery
C19_Witness ==
    /\ prev.state = "ERROR_RECOVERY" /\ prev.held /\ er_stays = 2
    /\ current_state = "LISTENING"

NoteLetters == {"A", "B", "C", "D", "E", "F", "G"}

\* the shape the claim accepts: a letter, at most one accidental, one digit
\* 0..8 and nothing else (a lower-case letter counts as its upper-case one)
StrictShape(note) ==
    /\ ~note.null
    /\ Len(note.chars) \in {2, 3}
    /\ toupper(note.chars[1]) \in NoteLetters
    /\ Len(note.chars) = 3 => note.chars[2] \in {"#", "b"}
    /\ note.chars[Len(note.chars)] \in
           {"0", "1", "2", "3", "4", "5", "6", "7", "8"}

\* C21: strict note parsing. parseNoteDetailed(s) is valid exactly when s is
\* one note letter, at most one accidental and one digit 0..8 with nothing
\* after it; parseNote returns 0 for every other string.
C21_StrictParsing ==
    Returned("parseNoteDetailed") =>
        /\ fn_out.parsed.valid <=> StrictShape(fn_in.note)
        /\ ~StrictShape(fn_in.note) => fn_out.frequency = 0

\* C22: calculateNoteFrequency returns 0 whenever the letter is not a note
\* name or the octave is outside 0..8, and a positive frequency for every
\* note letter with an octave in 0..8.
C22_InvalidNoteSentinel ==
    Returned("calculateNoteFrequency") =>
        IF toupper(fn_in.arg.note_letter) \in NoteLetters
           /\ fn_in.arg.octave \in 0..8
        THEN fn_out.frequency > 0
        ELSE fn_out.frequency = 0

\* the offsets as the claim lists them
ClaimOffset(letter) ==
    CASE letter = "C" -> 0 [] letter = "D" -> 2 [] letter = "E" -> 4
      [] letter = "F" -> 5 [] letter = "G" -> 7 [] letter = "A" -> 9
      [] letter = "B" -> 11

ClaimMidi(p) ==
    (p.octave + 1) * 12 + ClaimOffset(p.note_letter)
        + (IF p.is_sharp THEN 1 ELSE 0) - (IF p.is_flat THEN 1 ELSE 0)

SpelledNotes == {parseNoteDetailed([null |-> FALSE, chars |-> s]) : s \in Spellings}

\* C23: the frequency of a valid note is a function of its MIDI number
\* (octave+1)*12 + offset + sharp - flat, with A4 = MIDI 69 = 440 Hz: every
\* spelling of the same MIDI number has the same frequency and every
\* spelling of a higher MIDI number a strictly higher one.
C23_FrequencyByMidi ==
    (Returned("parseNoteDetailed") /\ fn_out.parsed.valid) =>
        LET p == fn_out.parsed
        IN  /\ fn_out.frequency = p.frequency
            /\ ClaimMidi(p) = 69 => p.frequency = 44000
            /\ \A q \in SpelledNotes :
                  /\ q.valid
                  /\ ClaimMidi(q) = ClaimMidi(p) => q.frequency = p.frequency
                  /\ ClaimMidi(q) > ClaimMidi(p) => q.frequency > p.frequency

C23_Witness ==
    /\ Returned("parseNoteDetailed")
    /\ fn_in.note.chars = << "D", "b", "4" >>
    /\ fn_out.parsed.valid
    /\ fn_out.frequency = 27718
    /\ fn_out.frequency = parseNote([null |-> FALSE, chars |-> << "C", "#", "4" >>])

\* C24: parseNoteDetailed never returns a note that is both sharp and flat,
\* and calculateNoteFrequency with sharp and flat both set returns the
\* frequency of the natural note.
C24_SharpAndFlat ==
    /\ Returned("parseNoteDetailed") =>
           ~(fn_out.parsed.is_sharp /\ fn_out.parsed.is_flat)
    /\ (Returned("calculateNoteFrequency")
            /\ fn_in.arg.is_sharp /\ fn_in.arg.is_flat) =>
           fn_out.frequency = calculateNoteFrequency(
               fn_in.arg.note_letter, fn_in.arg.octave, FALSE, FALSE)

C24_Witness ==
    /\ Returned("calculateNoteFrequency")
    /\ fn_in.arg = [note_letter |-> "C", octave |-> 4,
                    is_sharp |-> TRUE, is_flat |-> TRUE]
    /\ fn_out.frequency = 26163

\* the standard tuning as the claim lists it, string 1 (E4) to string 6 (E2)
ClaimTuning ==
    << [note |-> "E4", frequency |-> 32963], [note |-> "B3", frequency |-> 24694],
       [note |-> "G3", frequency |-> 19600], [note |-> "D3", frequency |-> 14683],
       [note |-> "A2", frequency |-> 11000], [note |-> "E2", frequency |-> 8241] >>

\* C25: getStringFrequency(n) and getStringNote(n) return entry n of the
\* standard tuning (1 = E4, the highest, to 6 = E2, the lowest) for n in
\* 1..6 and 0 and NULL for every other n; playGuitarString(n, d) starts a
\* tone only for n in 1..6.
C25_StringLookups ==
    /\ Returned("getString") =>
           IF fn_in.string_num \in 1..6
           THEN /\ fn_out.frequency = ClaimTuning[fn_in.string_num].frequency
                /\ fn_out.note = ClaimTuning[fn_in.string_num].note
                /\ \A m \in 1..6 :
                      m > fn_in.string_num
                          => getStringFrequency(m) < fn_out.frequency
           ELSE fn_out.frequency = 0 /\ fn_out.note = NullName
    /\ Returned("playGuitarString") =>
           (fn_out.tones # {} => fn_in.string_num \in 1..6)

C25_Witness ==
    /\ Returned("getString")
    /\ fn_in.string_num = 7
    /\ fn_out.frequency = 0
    /\ fn_out.note = NullName

TableDistance(frequency, i) == Abs(frequency - frequency_table[i].frequency)

\* the entry nearest in linear distance, the lower one on a tie
NearestEntry(frequency) ==
    CHOOSE i \in 1..FREQUENCY_TABLE_SIZE :
        \A j \in 1..FREQUENCY_TABLE_SIZE :
            \/ TableDistance(frequency, i) < TableDistance(frequency, j)
            \/ (TableDistance(frequency, i) = TableDistance(frequency, j)
                    /\ i <= j)

C27_NameForEveryFrequencyInRange ==
    (Returned("frequencyToNote")
        /\ fn_in.frequency >= frequency_table[1].frequency
        /\ fn_in.frequency <= frequency_table[FREQUENCY_TABLE_SIZE].frequency)
        => fn_out.note # NullName

\* C28: analyze_tuning(f, s) with f > 0 and s outside 1..6 returns what
\* analyze_tuning_auto(f) returns, and for every f > 0 the detected and the
\* target string of its result are in 1..6.
C28_BadStringFallsBack ==
    (Returned("analyze_tuning") /\ fn_in.frequency > 0) =>
        /\ fn_in.string_num \notin 1..6 =>
               fn_out.result = analyze_tuning_auto(fn_in.frequency)
        /\ fn_out.result.detected_string \in 1..6
        /\ fn_out.result.target_string \in 1..6

C28_Witness ==
    /\ Returned("analyze_tuning")
    /\ fn_in.frequency = 44000
    /\ fn_in.string_num = 7
    /\ fn_out.result.detected_string = 1
    /\ fn_out.result.target_string = 1

\* C29: analyze_tuning_auto(f) with f <= 0 returns direction UNKNOWN and
\* cents_offset 0, never UP, DOWN or IN_TUNE.
C29_NoSignalIsUnknown ==
    (Returned("analyze_tuning_auto") /\ fn_in.frequency <= 0) =>
        /\ fn_out.result.direction = "UNKNOWN"
        /\ fn_out.result.cents_offset = 0

C29_Witness ==
    /\ Returned("analyze_tuning_auto")
    /\ fn_in.frequency = 0
    /\ fn_out.result.direction = "UNKNOWN"

\* the string whose reference is nearest to f in the ratio of frequencies:
\* between two adjacent references the boundary is their geometric mean
GeometricString(f) ==
    IF f <= STRING_FREQUENCIES[6] THEN 6
    ELSE IF f >= STRING_FREQUENCIES[1] THEN 1
    ELSE LET s == CHOOSE t \in 1..5 :
                      STRING_FREQUENCIES[t + 1] <= f /\ f < STRING_FREQUENCIES[t]
         IN  IF f * f >= STRING_FREQUENCIES[s] * STRING_FREQUENCIES[s + 1]
             THEN s ELSE s + 1

\* C30: analyze_tuning_auto(f) for f > 0 detects the string whose reference
\* is nearest to f in logarithmic distance (the boundary between adjacent
\* strings is the geometric mean of their references), sets target_string
\* to it, maps each reference frequency to its own string, frequencies
\* below E2 to string 6 and above E4 to string 1.
C30_NearestStringOnLogScale ==
    (Returned("analyze_tuning_auto") /\ fn_in.frequency > 0) =>
        LET f == fn_in.frequency
            r == fn_out.result
        IN  /\ r.detected_string = GeometricString(f)
            /\ r.target_string = r.detected_string
            /\ \A s \in Strings : f = STRING_FREQUENCIES[s] => r.detected_string = s
            /\ f < STRING_FREQUENCIES[6] => r.detected_string = 6
            /\ f > STRING_FREQUENCIES[1] => r.detected_string = 1

\* 95.80 Hz is nearer to E2 in Hz and nearer to A2 in the ratio
C30_Witness ==
    /\ Returned("analyze_tuning_auto")
    /\ fn_in.frequency = 9580
    /\ 9580 - STRING_FREQUENCIES[6] < STRING_FREQUENCIES[5] - 9580
    /\ fn_out.result.detected_string = 5

ExpectedCents ==
    {<< 44000, 44000, 0 >>, << 44500, 44000, 19 >>, << 43500, 44000, 0 - 19 >>,
     << 46616, 44000, 99 >>, << 88000, 44000, 1200 >>, << 22000, 44000, 0 - 1200 >>}

\* C32: calculate_cents_offset(detected, target) is 1200 * log2(detected /
\* target) for positive arguments: 0 when detected = target, 1200 when
\* detected = 2 * target, positive exactly when detected > target and
\* negative exactly when detected < target.
C32_CentsOffset ==
    (Returned("calculate_cents_offset") /\ fn_in.detected > 0 /\ fn_in.target > 0) =>
        LET d == fn_in.detected
            t == fn_in.target
        IN  /\ d = t => fn_out.cents = 0
            /\ d = 2 * t => fn_out.cents = 1200
            /\ fn_out.log > 0 <=> d > t
            /\ fn_out.log < 0 <=> d < t
            /\ fn_out.cents > 0 => d > t
            /\ fn_out.cents < 0 => d < t
            /\ fn_out.cents = CentsOfLog(Abs(fn_out.log))
                                  * (IF fn_out.log < 0 THEN 0 - 1 ELSE 1)
            /\ \A e \in ExpectedCents :
                  (e[1] = d /\ e[2] = t) => fn_out.cents = e[3]

C32_Witness ==
    /\ Returned("calculate_cents_offset")
    /\ fn_in.detected = 88000
    /\ fn_in.target = 44000
    /\ fn_out.cents = 1200

\* C33: in ProvidingFeedback a poll that reads a frequency > 0 replaces the
\* latest result by the analysis of that frequency against the session's
\* target string and resets the weak-signal counter; a poll that reads no
\* signal leaves the latest result unchanged.
C33_FeedbackRefreshed ==
    (Polled /\ prev.state = "PROVIDING_FEEDBACK") =>
        IF prev.freq > 0
        THEN /\ latest_result = analyze_tuning(prev.freq, prev.target)
             /\ latest_result.detected_frequency = prev.freq
             /\ latest_result.target_string = prev.target
             /\ weak_signal_count = 0
        ELSE latest_result = prev.result

C33_Witness ==
    /\ Polled
    /\ prev.state = "PROVIDING_FEEDBACK"
    /\ prev.freq = 11064
    /\ prev.result.detected_frequency = 11000
    /\ prev.result.direction = "IN_TUNE"
    /\ latest_result.direction = "DOWN"
    /\ latest_result.cents_offset = 10
    /\ current_state = "PROVIDING_FEEDBACK"

\* C34: the weak-signal counter is 0 on every entry into Listening,
\* whichever state it is entered from, so ErrorRecovery is never entered by
\* weak-signal escalation after fewer than MAX_WEAK_SIGNAL_COUNT consecutive
\* no-signal polls made in Listening.
C34_WeakZeroOnListeningEntry ==
    /\ (current_state = "LISTENING" /\ fresh) => weak_signal_count = 0
    /\ (NoSignalPoll("LISTENING") /\ PrevElapsed < MAX_NO_SIGNAL_TIME_MS
            /\ current_state = "ERROR_RECOVERY")
           => nosig_run >= MAX_WEAK_SIGNAL_COUNT

\* C35: at every poll boundary, after any sequence of presses, releases,
\* readings and clock advances, the amplifier is enabled exactly when the
\* state is not Idle.
C35_AmplifierFollowsSession ==
    amp_enabled <=> current_state # "IDLE"

C35_Witness ==
    /\ Polled
    /\ prev.state = "PROVIDING_FEEDBACK"
    /\ ~prev.held
    /\ current_state = "IDLE"
    /\ ~amp_enabled
    /\ presses = MaxPresses


\* C36: one target per session. In every non-Idle state target_string is
\* one of the strings 1..6 and the target frequency is that string's; a poll
\* of a non-Idle state leaves target_string as it was, whatever button event
\* is pending, unless it ends the session, and then target_string is 0.
C36_OneTargetPerSession ==
    /\ current_state # "IDLE"
         => /\ target_string \in 1..6
            /\ target_frequency = STRING_FREQUENCIES[target_string]
    /\ prev.state \in NonIdleStates
         => IF current_state = "IDLE"
            THEN target_string = 0
            ELSE target_string = prev.target

\* a poll during a session while a press of another string is pending
C36_Witness ==
    /\ prev.state \in NonIdleStates
    /\ current_state # "IDLE"
    /\ event.state = "PRESSED"
    /\ event.id \in 1..6
    /\ event.id # target_string
    /\ target_string = prev.target


\* a poll of ProvidingFeedback that analyses an in-tune result
InTunePoll ==
    /\ prev.state = "PROVIDING_FEEDBACK"
    /\ prev.freq > 0
    /\ Abs(latest_result.cents_offset) < IN_TUNE_CENTS

\* C37: the in-tune announcement is latched per session. A poll of
\* ProvidingFeedback emits the announcement exactly when it analyses an
\* in-tune result and no earlier poll of the same session has analysed one,
\* in the first session and in every later one.
C37_AnnouncedOncePerSession ==
    prev.state = "PROVIDING_FEEDBACK"
        => (("in_tune_announcement" \in cues) <=> (InTunePoll /\ ~prev.tuned))


\* C38: the beep due-check across the wrap of the millisecond clock. A call
\* of audio_sequencer_update_beeps beeps exactly when beeping is active, the
\* interval of the current result is > 0 and the time since the last beep,
\* taken as an unsigned difference modulo the range of the clock, is at
\* least the interval.
C38_BeepDueAcrossWrap ==
    Returned("audio_sequencer_update_beeps") =>
        (fn_out.beeped
            <=> /\ fn_in.active
                /\ calculate_beep_interval(fn_in.cents) > 0
                /\ Elapsed(fn_in.time, fn_in.last)
                     >= calculate_beep_interval(fn_in.cents))


\* C39: one in-tune judgment. For every cents offset the cadence mapper
\* returns interval 0 exactly when the direction of the offset is IN_TUNE
\* under TUNING_TOLERANCE_CENTS, and exactly when state_providing_feedback
\* treats the offset as in tune.
C39_OneInTuneJudgment ==
    Returned("get_tuning_direction") =>
        /\ (calculate_beep_interval(fn_in.cents) = 0)
              <=> (fn_out.direction = "IN_TUNE")
        /\ (fn_out.direction = "IN_TUNE")
              <=> (Abs(fn_in.cents) < IN_TUNE_CENTS)


\* C40: the state machines of main_test.cpp and test_state_machine.cpp, run
\* side by side with main.cpp's on the same clock values, button events,
\* button levels and frequencies, are in the same state with the same
\* target_string after every poll.
C40_SameMachine ==
    twin.on => SameAsDevice(twin.pc) /\ SameAsDevice(twin.sm)

====
